---- MODULE Spec2Model ----
(***************************************************************************)
(* Model of s3_mp_janitor: the command line front end (package main) and   *)
(* the S3 access functions (package s3Access).  The storage provider is    *)
(* modelled by the contents of each bucket and by the result every call    *)
(* returns; the program is modelled step by step, one action per provider  *)
(* call or prompt.                                                         *)
(***************************************************************************)
EXTENDS Integers, Sequences, FiniteSets, TLC

\* ---------------------------------------------------------------- bounds
MaxUploads == 3     \* most uploads each bucket holds initially
PageSize   == 2     \* most uploads one ListMultipartUploads response carries
MaxRuns    == 2     \* most top-level operations (menu choices, API calls)
MaxFaults  == 1     \* most calls the provider fails (timeout, denial, race)

\* ------------------------------------------------- policy of the design
MinimumAge  == 24   \* Policy.minimumAge, in hours
Now         == 48   \* the time of the run, in hours
MaxAttempts == 3    \* the retry limit of the design

\* ------------------------------------------------------------- provider
allProfiles == "ALL_PROFILES"
ALL_BUCKETS == "ALL_BUCKETS"
Err         == "<error>"
Nil         == [op |-> "nil", kind |-> "nil", id |-> <<>>]

Profiles == {"default", "prod"}

\* the buckets of the account behind each profile, in ListBuckets order
BucketsOf(p) ==
  IF p = "default" THEN <<"logs">> ELSE <<"data", ALL_BUCKETS>>

Range(s) == {s[i] : i \in 1..Len(s)}

Buckets == UNION {Range(BucketsOf(p)) : p \in Profiles}

\* the n-th upload of bucket b: the first was initiated 23h ago, the second
\* exactly 24h ago, the third 25h ago, ...
Upload(b, n) == [id |-> <<b, n>>, initiated |-> Now - MinimumAge + 2 - n]

InitialUploads(b, k) == [n \in 1..k |-> Upload(b, n)]

\* what a provider call may answer besides its regular result: a passing
\* failure (timeout, throttling) or access denied
Faults == {"none", "transient", "denied"}

\* an abort call may also find that another process has completed or
\* aborted the upload since it was listed
AbortFaults == Faults \cup {"notFound"}

Min(a, b) == IF a < b THEN a ELSE b

Remove(s, id) == SelectSeq(s, LAMBDA u : u.id # id)

Effective(p) == IF p = "" THEN "default" ELSE p

\* ---------------------------------------------------------------- state
VARIABLES
  uploads,       \* provider: bucket -> the incomplete uploads it holds
  helpFlag, discoverFlag, profileFlag, profileFirst,   \* command line
  pc,            \* position of the program
  retTo,         \* where AbortFailedMultipartUploadsInBucket returns to
  profile,       \* the profile the user selected
  sess,          \* the session the S3 calls are made with
  bucket,        \* the bucket the user selected
  buckets, bi,   \* the bucket list being looped over, and the loop index
  bucketName,    \* argument of AbortFailedMultipartUploadsInBucket
  listing, idx,  \* uploads.Uploads and the position of the abort loop
  err,           \* the error the last call returned
  runs, calls, faults,                                 \* counters
  lists, aborts, rets, printed                         \* what has happened

flagVars == <<helpFlag, discoverFlag, profileFirst>>
loopVars == <<buckets, bi>>
fnVars   == <<retTo, bucketName, listing, idx>>
histVars == <<lists, aborts, rets>>
vars == <<uploads, helpFlag, discoverFlag, profileFlag, profileFirst, pc,
          retTo, profile, sess, bucket, buckets, bi, bucketName, listing,
          idx, err, runs, calls, faults,        lists, aborts, rets,
          printed>>

NoSession == [profile |-> "", creds |-> ""]

Init ==
  /\ \E k \in 0..MaxUploads :
       uploads = [b \in Buckets |-> InitialUploads(b, k)]
  /\ \/ /\ pc = "main"
        /\ helpFlag \in BOOLEAN
        /\ discoverFlag \in BOOLEAN
        /\ profileFlag \in {""} \cup Profiles \cup {allProfiles}
        /\ profileFirst \in BOOLEAN
        /\ profileFirst => profileFlag # ""
     \/ /\ pc = "api"
        /\ helpFlag = FALSE /\ discoverFlag = FALSE
        /\ profileFlag = "" /\ profileFirst = FALSE
  /\ retTo = "" /\ profile = "" /\ sess = NoSession /\ bucket = ""
  /\ buckets = <<>> /\ bi = 1
  /\ bucketName = "" /\ listing = <<>> /\ idx = 1
  /\ err = Nil
  /\ runs = 0 /\ calls = 0 /\ faults = 0
  /\ lists = <<>> /\ aborts = <<>> /\ rets = <<>> /\ printed = <<>>

\* ------------------------------------------------------ provider calls
Owns(s, b) == s.creds \in Profiles /\ b \in Range(BucketsOf(s.creds))

\* what the provider may answer to the next call, and the count of it
MayAnswer(answers) == IF faults < MaxFaults THEN answers ELSE {"none"}

Answered(f) == faults' = IF f = "none" THEN faults ELSE faults + 1

\* s3Svc.ListBuckets(nil) with session s, the provider answering f
ListBuckets(s, f) ==
  IF s.creds \notin Profiles THEN [res |-> "denied", names |-> <<>>]
  ELSE IF f # "none" THEN [res |-> f, names |-> <<>>]
  ELSE [res |-> "ok", names |-> BucketsOf(s.creds)]

\* s3Svc.ListMultipartUploads(Bucket: b), no continuation marker given:
\* the provider returns its first page and says whether more remain
ListMultipartUploads(s, b, f) ==
  IF ~Owns(s, b) THEN [res |-> "denied", page |-> <<>>, truncated |-> FALSE]
  ELSE IF f # "none" THEN [res |-> f, page |-> <<>>, truncated |-> FALSE]
  ELSE [res |-> "ok",
        page |-> SubSeq(uploads[b], 1, Min(PageSize, Len(uploads[b]))),
        truncated |-> Len(uploads[b]) > PageSize]

\* s3Svc.AbortMultipartUpload(Bucket: b, UploadId: id): the answer
AbortMultipartUpload(s, b, id, f) ==
  IF ~Owns(s, b) THEN "denied"
  ELSE IF f # "none" THEN f
  ELSE IF \A i \in 1..Len(uploads[b]) : uploads[b][i].id # id THEN "notFound"
  ELSE "ok"

AbortKeepsUpload(b, id, res) == uploads

\* ... and what the provider holds afterwards: the upload is gone when the
\* abort succeeded, and when not-found said that it was gone already
AfterAbort(b, id, res) ==
  IF res \in {"ok", "notFound"}
    THEN [uploads EXCEPT ![b] = Remove(@, id)]
    ELSE uploads

\* ---------------------------- package s3Access: one bucket (part_001)
EnterBucket(s, b, ret) ==
  /\ sess' = s /\ bucketName' = b /\ retTo' = ret
  /\ listing' = <<>> /\ idx' = 1
  /\ calls' = calls + 1
  /\ pc' = "list"

ReturnBucket(e) ==
  /\ err' = e
  /\ rets' = Append(rets, [fn |-> "bucket", run |-> runs, call |-> calls,
                           bucket |-> bucketName, names |-> <<>>,
                           err |-> e])
  /\ pc' = retTo

IgnoreListError(r) == FALSE

\* if err != nil after ListMultipartUploads
ListFailed(r) == r.res # "ok"

\* the listing call and the check of its error
BucketList ==
  /\ pc = "list"
  /\ \E f \in MayAnswer(Faults) :
       LET r == ListMultipartUploads(sess, bucketName, f) IN
       /\ Answered(f)
       /\ lists' = Append(lists, [run |-> runs, call |-> calls,
                                  bucket |-> bucketName, res |-> r.res,
                                  page |-> r.page,
                                  held |-> uploads[bucketName],
                                  truncated |-> r.truncated])
       /\ IF ListFailed(r)
            THEN /\ ReturnBucket([op |-> "list", kind |-> r.res, id |-> <<>>])
                 /\ UNCHANGED <<listing, idx>>
            ELSE /\ listing' = r.page /\ idx' = 1 /\ pc' = "loop"
                 /\ UNCHANGED <<err, rets>>
  /\ UNCHANGED <<uploads, flagVars, profileFlag, retTo, profile, sess,
                 bucket, loopVars, bucketName, runs, calls, aborts,
                 printed>>

\* one iteration of the abort loop
BucketAbort ==
  /\ pc = "loop" /\ idx <= Len(listing)
  /\ \E f \in MayAnswer(AbortFaults) :
       LET u == listing[idx]
           res == AbortMultipartUpload(sess, bucketName, u.id, f) IN
       /\ Answered(f)
       /\ aborts' = Append(aborts, [run |-> runs, call |-> calls,
                                    bucket |-> bucketName, id |-> u.id,
                                    initiated |-> u.initiated, res |-> res])
       /\ uploads' = AfterAbort(bucketName, u.id, res)
       /\ IF res # "ok"
            THEN /\ ReturnBucket([op |-> "abort", kind |-> res, id |-> u.id])
                 /\ UNCHANGED idx
            ELSE /\ idx' = idx + 1
                 /\ UNCHANGED <<pc, err, rets>>
  /\ UNCHANGED <<flagVars, profileFlag, retTo, profile, sess, bucket,
                 loopVars, bucketName, listing, runs, calls, lists,
                 printed>>

\* the loop is over: return nil
BucketDone ==
  /\ pc = "loop" /\ idx > Len(listing)
  /\ ReturnBucket(Nil)
  /\ UNCHANGED <<uploads, flagVars, profileFlag, retTo, profile, sess,
                 bucket, loopVars, bucketName, listing, idx, runs, calls,
                 lists, aborts, printed>>
  /\ UNCHANGED faults

\* ---------------------------- package s3Access: all buckets (part_001)
ReturnAll(e) ==
  /\ err' = e
  /\ rets' = Append(rets, [fn |-> "all", run |-> runs, call |-> calls,
                           bucket |-> "", names |-> buckets, err |-> e])
  /\ pc' = "api"

\* s3Svc.ListBuckets(nil) and the check of its error
AllList ==
  /\ pc = "all_list"
  /\ \E f \in MayAnswer(Faults) :
       LET r == ListBuckets(sess, f) IN
       /\ Answered(f)
       /\ IF r.res # "ok"
            THEN /\ ReturnAll([op |-> "buckets", kind |-> r.res, id |-> <<>>])
                 /\ UNCHANGED loopVars
            ELSE /\ buckets' = r.names /\ bi' = 1 /\ pc' = "all_loop"
                 /\ UNCHANGED <<err, rets>>
  /\ UNCHANGED <<uploads, flagVars, profileFlag, retTo, profile, sess,
                 bucket, bucketName, listing, idx, runs, calls,
                 lists, aborts, printed>>

\* the head of the loop over the buckets: call the one-bucket function,
\* or return nil when the loop is over
AllNext ==
  /\ pc = "all_loop"
  /\ IF bi <= Len(buckets)
       THEN /\ EnterBucket(sess, buckets[bi], "all_ret")
            /\ UNCHANGED <<err, rets>>
       ELSE /\ ReturnAll(Nil)
            /\ UNCHANGED <<retTo, sess, bucketName, listing, idx, calls>>
  /\ UNCHANGED <<uploads, flagVars, profileFlag, profile, bucket, loopVars,
                 runs, lists, aborts, printed>>
  /\ UNCHANGED faults

\* the check of the error the one-bucket function returned
AllRet ==
  /\ pc = "all_ret"
  /\ IF err # Nil
       THEN /\ ReturnAll(err)
            /\ UNCHANGED bi
       ELSE /\ bi' = bi + 1 /\ pc' = "all_loop"
            /\ UNCHANGED <<err, rets>>
  /\ UNCHANGED <<uploads, flagVars, profileFlag, retTo, profile, sess,
                 bucket, buckets, bucketName, listing, idx, runs, calls,
                 lists, aborts, printed>>
  /\ UNCHANGED faults

\* ------------------------------------- a caller of the exported functions
Session(p) == [profile |-> p, creds |-> p]

ApiCallBucket ==
  /\ pc = "api" /\ runs < MaxRuns
  /\ \E p \in Profiles, b \in Buckets :
       EnterBucket(Session(p), b, "api")
  /\ runs' = runs + 1
  /\ UNCHANGED <<uploads, flagVars, profileFlag, profile, bucket, loopVars,
                 err, histVars, printed>>
  /\ UNCHANGED faults

ApiCallAll ==
  /\ pc = "api" /\ runs < MaxRuns
  /\ \E p \in Profiles : sess' = Session(p)
  /\ runs' = runs + 1
  /\ pc' = "all_list"
  /\ UNCHANGED <<uploads, flagVars, profileFlag, profile, bucket, loopVars,
                 fnVars, err, calls, histVars, printed>>
  /\ UNCHANGED faults

\* --------------------------------------------- package main (part_000)
ErrSession == [profile |-> Err, creds |-> Err]

Msg(m, p, b) == [msg |-> m, profile |-> p, bucket |-> b]

Say(m, p, b) == printed' = Append(printed, Msg(m, p, b))

\* the results GetProfileChoice can return: a configured profile, or the
\* error of reading the configuration or of the prompt
GetProfileChoice == Profiles \cup {Err}

\* s3Access.GetCredentialsForProfile(p): the credentials of the profile
\* ("default" for the empty name), or an error
GetCredentialsForProfile(p) ==
  {Err} \cup (IF Effective(p) \in Profiles THEN {Effective(p)} ELSE {})

\* s3Access.CreateAWSSessionWithCredentials(p, c)
CreateAWSSessionWithCredentials(p, c) ==
  {ErrSession, [profile |-> p, creds |-> c]}

\* config.EstablishConnectionUsingProfile(p)
EstablishConnectionUsingProfile(p) ==
  {ErrSession} \cup (IF p \in Profiles THEN {Session(p)} ELSE {})

\* s3Access.ListS3Buckets(s): the results it can return
ListS3Buckets(s) == {ListBuckets(s, f) : f \in Faults}

\* the results GetBucketChoice(p) can return: one of the buckets listed with
\* a session of profile p, or the error of any of its steps
GetBucketChoice(p) ==
  {Err} \cup
  UNION {UNION {Range(r.names) : r \in ListS3Buckets(s)} :
           s \in EstablishConnectionUsingProfile(p) \ {ErrSession}}

printFailedUploadsAborting(s, b) ==
  LET page == IF Owns(s, b)
                THEN SubSeq(uploads[b], 1, Min(PageSize, Len(uploads[b])))
                ELSE <<>> IN
  /\ Say("Failed uploads for bucket:", "", b)
  /\ aborts' = aborts \o [i \in 1..Len(page) |->
                            [run |-> runs, call |-> calls, bucket |-> b,
                             id |-> page[i].id,
                             initiated |-> page[i].initiated, res |-> "ok"]]
  /\ uploads' = IF Owns(s, b)
                  THEN [uploads EXCEPT
                          ![b] = SubSeq(@, Len(page) + 1, Len(@))]
                  ELSE uploads
  /\ UNCHANGED lists

\* printFailedUploads(sess, bucketName): prints the bucket's name
printFailedUploads(s, b) ==
  /\ Say("Failed uploads for bucket:", "", b)
  /\ UNCHANGED <<uploads, lists, aborts>>

\* main: the check of the first argument
Main ==
  /\ pc = "main"
  /\ IF profileFirst
       THEN /\ Say("Error: --profile/-p flag can't be used alone", "", "")
            /\ pc' = "exit"
       ELSE /\ pc' = "root" /\ UNCHANGED printed
  /\ UNCHANGED <<uploads, flagVars, profileFlag, profile, sess, bucket,
                 loopVars, fnVars, err, runs, calls, histVars>>
  /\ UNCHANGED faults

\* rootCmd.Run: help, discover or menu
RootCmd ==
  /\ pc = "root"
  /\ IF helpFlag
       THEN /\ Say("help", "", "") /\ pc' = "exit"
       ELSE /\ pc' = IF discoverFlag THEN "discover" ELSE "menu"
            /\ UNCHANGED printed
  /\ UNCHANGED <<uploads, flagVars, profileFlag, profile, sess, bucket,
                 loopVars, fnVars, err, runs, calls, histVars>>
  /\ UNCHANGED faults

MenuChoices == {"Select the profile and bucket to expire",
                "Select the profile and all buckets to expire",
                "Expire all profiles and all buckets",
                "Exit"}

\* menu: the prompt and the switch on its result
MenuPrompt ==
  /\ pc = "menu"
  /\ \E result \in MenuChoices \cup {Err} :
       \/ /\ result = Err
          /\ Say("Prompt failed", "", "") /\ pc' = "exit"
          /\ UNCHANGED runs
       \/ /\ result = "Exit"
          /\ Say("Exiting...", "", "") /\ pc' = "exit"
          /\ UNCHANGED runs
       \/ /\ result = "Select the profile and bucket to expire"
          /\ runs < MaxRuns /\ runs' = runs + 1
          /\ pc' = "m_profile"
          /\ UNCHANGED printed
       \/ /\ result = "Select the profile and all buckets to expire"
          /\ runs < MaxRuns /\ runs' = runs + 1
          /\ pc' = "m_opt2"
          /\ UNCHANGED printed
       \/ /\ result = "Expire all profiles and all buckets"
          /\ runs < MaxRuns /\ runs' = runs + 1
          /\ UNCHANGED <<pc, printed>>
  /\ UNCHANGED <<uploads, flagVars, profileFlag, profile, sess, bucket,
                 loopVars, fnVars, err, calls, histVars>>
  /\ UNCHANGED faults

\* case 1: "Select Profile"
MenuProfile ==
  /\ pc = "m_profile"
  /\ \E r \in GetProfileChoice :
       IF r = Err
         THEN /\ Say("Error selecting profile", "", "") /\ pc' = "menu"
              /\ UNCHANGED profile
         ELSE /\ profile' = r /\ pc' = "m_session"
              /\ UNCHANGED printed
  /\ UNCHANGED <<uploads, flagVars, profileFlag, sess, bucket, loopVars,
                 fnVars, err, runs, calls, histVars>>
  /\ UNCHANGED faults

\* case 1: "Create session with profile"
MenuSession ==
  /\ pc = "m_session"
  /\ \E credentials \in GetCredentialsForProfile(profileFlag) :
       IF credentials = Err
         THEN /\ Say("Error fetching credentials for profile",
                     profileFlag, "")
              /\ pc' = "exit" /\ UNCHANGED sess
         ELSE \E s \in CreateAWSSessionWithCredentials(profileFlag,
                                                       credentials) :
                IF s = ErrSession
                  THEN /\ Say("Error creating session", "", "")
                       /\ pc' = "exit" /\ UNCHANGED sess
                  ELSE /\ sess' = s /\ pc' = "m_bucket"
                       /\ UNCHANGED printed
  /\ UNCHANGED <<uploads, flagVars, profileFlag, profile, bucket, loopVars,
                 fnVars, err, runs, calls, histVars>>
  /\ UNCHANGED faults

\* case 1: "Select Bucket", "Validation" and the call of "Purge in bucket"
MenuBucket ==
  /\ pc = "m_bucket"
  /\ \E r \in GetBucketChoice(profile) :
       IF r = Err
         THEN /\ Say("Error selecting bucket", "", "") /\ pc' = "menu"
              /\ UNCHANGED <<bucket, sess, fnVars, calls>>
         ELSE /\ bucket' = r
              /\ Say("You chose profile", profile, r)
              /\ EnterBucket(sess, r, "m_ret")
  /\ UNCHANGED <<uploads, flagVars, profileFlag, profile, loopVars, err,
                 runs, histVars>>
  /\ UNCHANGED faults

\* case 1: the check of the error of "Purge in bucket"
MenuRet ==
  /\ pc = "m_ret"
  /\ IF err # Nil
       THEN Say("Error occurred expiring multipart uploads in bucket",
                "", bucket)
       ELSE UNCHANGED printed
  /\ pc' = "menu"
  /\ UNCHANGED <<uploads, flagVars, profileFlag, profile, sess, bucket,
                 loopVars, fnVars, err, runs, calls, histVars>>
  /\ UNCHANGED faults

\* case 2: the profile is selected and printed, nothing else is done
MenuAllBuckets ==
  /\ pc = "m_opt2"
  /\ \E r \in GetProfileChoice :
       IF r = Err
         THEN Say("Error selecting profile", "", "")
         ELSE Say("You chose profile. All buckets will be expired", r, "")
  /\ pc' = "menu"
  /\ UNCHANGED <<uploads, flagVars, profileFlag, profile, sess, bucket,
                 loopVars, fnVars, err, runs, calls, histVars>>
  /\ UNCHANGED faults

\* discover: the profile
DiscoverProfile ==
  /\ pc = "discover"
  /\ IF profileFlag = "" \/ profileFlag = allProfiles
       THEN \E r \in GetProfileChoice :
              IF r = Err
                THEN /\ Say("Error selecting profile", "", "")
                     /\ pc' = "exit" /\ UNCHANGED profileFlag
                ELSE /\ profileFlag' = r /\ pc' = "d_session"
                     /\ UNCHANGED printed
       ELSE /\ pc' = "d_session" /\ UNCHANGED <<profileFlag, printed>>
  /\ UNCHANGED <<uploads, flagVars, profile, sess, bucket, loopVars, fnVars,
                 err, runs, calls, histVars>>
  /\ UNCHANGED faults

\* discover: the credentials and the session
DiscoverSession ==
  /\ pc = "d_session"
  /\ \E credentials \in GetCredentialsForProfile(profileFlag) :
       IF credentials = Err
         THEN /\ Say("Error fetching credentials for", profileFlag, "")
              /\ pc' = "exit" /\ UNCHANGED sess
         ELSE \E s \in CreateAWSSessionWithCredentials(profileFlag,
                                                       credentials) :
                IF s = ErrSession
                  THEN /\ Say("Error creating session", "", "")
                       /\ pc' = "exit" /\ UNCHANGED sess
                  ELSE /\ sess' = s /\ pc' = "d_bucket"
                       /\ UNCHANGED printed
  /\ UNCHANGED <<uploads, flagVars, profileFlag, profile, bucket, loopVars,
                 fnVars, err, runs, calls, histVars>>
  /\ UNCHANGED faults

\* discover: the bucket, and the report on a single bucket
DiscoverBucket ==
  /\ pc = "d_bucket"
  /\ \E r \in GetBucketChoice(profileFlag) :
       IF r = Err
         THEN /\ Say("Error selecting bucket", "", "") /\ pc' = "exit"
              /\ UNCHANGED <<bucket, uploads, histVars>>
         ELSE /\ bucket' = r
              /\ IF r = ALL_BUCKETS
                   THEN /\ pc' = "d_list"
                        /\ UNCHANGED <<printed, uploads, histVars>>
                   ELSE /\ printFailedUploads(sess, r)
                        /\ pc' = "exit"
                        /\ UNCHANGED rets
  /\ UNCHANGED <<flagVars, profileFlag, profile, sess, loopVars, fnVars,
                 err, runs, calls>>
  /\ UNCHANGED faults

\* discover, ALL_BUCKETS: the list of the buckets
DiscoverList ==
  /\ pc = "d_list"
  /\ \E f \in MayAnswer(Faults) :
       LET r == ListBuckets(sess, f) IN
       /\ Answered(f)
       /\ IF r.res # "ok"
            THEN /\ Say("Error retrieving buckets", "", "")
                 /\ pc' = "exit"
                 /\ UNCHANGED loopVars
            ELSE /\ buckets' = r.names /\ bi' = 1 /\ pc' = "d_print"
                 /\ UNCHANGED printed
  /\ UNCHANGED <<uploads, flagVars, profileFlag, profile, sess, bucket,
                 fnVars, err, runs, calls, histVars>>

\* discover, ALL_BUCKETS: one iteration of the loop over the buckets
DiscoverPrint ==
  /\ pc = "d_print"
  /\ IF bi <= Len(buckets)
       THEN /\ printFailedUploads(sess, buckets[bi])
            /\ bi' = bi + 1
            /\ UNCHANGED pc
       ELSE /\ pc' = "exit"
            /\ UNCHANGED <<bi, printed, uploads, lists, aborts>>
  /\ UNCHANGED <<flagVars, profileFlag, profile, sess, bucket, buckets,
                 fnVars, err, runs, calls, rets>>
  /\ UNCHANGED faults

\* ------------------------------------------------------- specification
Next ==
  \/ Main \/ RootCmd
  \/ MenuPrompt \/ MenuProfile \/ MenuSession \/ MenuBucket \/ MenuRet
  \/ MenuAllBuckets
  \/ DiscoverProfile \/ DiscoverSession \/ DiscoverBucket \/ DiscoverList
  \/ DiscoverPrint
  \/ ApiCallBucket \/ ApiCallAll
  \/ AllList \/ AllNext \/ AllRet
  \/ BucketList \/ BucketAbort \/ BucketDone

Spec == Init /\ [][Next]_vars

TypeOK ==
  /\ pc \in {"main", "root", "menu", "m_profile", "m_session", "m_bucket", "m_ret",
             "m_opt2", "discover", "d_session", "d_bucket", "d_list",
             "d_print", "api", "all_list", "all_loop", "all_ret", "list",
             "loop", "exit"}
  /\ runs \in 0..MaxRuns
  /\ faults \in 0..MaxFaults
  /\ \A b \in Buckets : Len(uploads[b]) <= MaxUploads

\* ------------------------------------------------------------- history
\* the returns of AbortFailedMultipartUploadsInBucket so far
BucketReturns == {i \in DOMAIN rets : rets[i].fn = "bucket"}

\* the abort calls that invocation c issued for upload id
AbortsFor(c, id) ==
  {j \in DOMAIN aborts : aborts[j].call = c /\ aborts[j].id = id}

\* the listing calls that invocation c issued
ListsOf(c) == {i \in DOMAIN lists : lists[i].call = c}

\* --------------------------------------------------------------- claims

\* C1: when AbortFailedMultipartUploadsInBucket has returned, every upload
\* its listing returned has received exactly one abort call, whose result
\* is its outcome: none is aborted twice, none is left without an outcome,
\* also when the abort of an earlier upload of the listing failed.
C1_EveryListedUploadHasOneOutcome ==
  \A r \in BucketReturns : \A i \in ListsOf(rets[r].call) :
    lists[i].res = "ok" =>
      \A n \in 1..Len(lists[i].page) :
        Cardinality(AbortsFor(rets[r].call, lists[i].page[n].id)) = 1

\* C2: when AbortFailedMultipartUploadsInAllBuckets has returned after
\* listing the buckets, every bucket of that list has been processed (its
\* uploads were listed), whether or not another bucket failed.
C2_EveryBucketProcessed ==
  \A r \in DOMAIN rets :
    rets[r].fn = "all" /\ rets[r].err.op # "buckets" =>
      \A b \in Range(rets[r].names) :
        \E i \in DOMAIN lists :
          lists[i].run = rets[r].run /\ lists[i].bucket = b

\* C3: an abort call that answers not-found is a success: the function
\* never returns an error because of it.
C3_NotFoundIsSuccess ==
  \A r \in BucketReturns : rets[r].err.kind # "notFound"

\* C4: no abort call is issued for an upload initiated later than
\* Now - MinimumAge, and when the function returns nil every listed upload
\* initiated at or before Now - MinimumAge has been aborted.
C4_OnlyEligibleAborted ==
  /\ \A j \in DOMAIN aborts : aborts[j].initiated <= Now - MinimumAge
  /\ \A r \in BucketReturns : \A i \in ListsOf(rets[r].call) :
       rets[r].err = Nil =>
         \A n \in 1..Len(lists[i].page) :
           lists[i].page[n].initiated <= Now - MinimumAge =>
             AbortsFor(rets[r].call, lists[i].page[n].id) # {}

\* C5: a successful listing step obtains as many upload descriptors as the
\* bucket holds, however many pages the provider needs for them.
C5_ListingObtainsAll ==
  \A i \in DOMAIN lists :
    lists[i].res = "ok" => Len(lists[i].page) = Len(lists[i].held)

\* C6: over successive runs, no abort call is issued for an upload id whose
\* abort succeeded in an earlier run.
C6_NoSecondAbortAfterSuccess ==
  \A i, j \in DOMAIN aborts :
    (i < j /\ aborts[i].call # aborts[j].call /\ aborts[i].res = "ok")
      => aborts[i].id # aborts[j].id

\* C6 happens: a first run on a bucket aborted an upload and then stopped
\* on a failure, and a second run on the same bucket has issued an abort.
C6_Witness ==
  \E r1, r2 \in BucketReturns :
    /\ r1 < r2 /\ rets[r1].bucket = rets[r2].bucket
    /\ rets[r1].err.op = "abort"
    /\ \E j \in DOMAIN aborts :
         aborts[j].call = rets[r1].call /\ aborts[j].res = "ok"
    /\ \E j \in DOMAIN aborts : aborts[j].call = rets[r2].call

\* C7: a transient failure is surfaced only after MaxAttempts attempts of
\* the failing call, and an access-denied failure after a single attempt.
C7_TransientRetried ==
  \A r \in BucketReturns :
    LET e == rets[r].err
        attempts == IF e.op = "list"
                      THEN Cardinality(ListsOf(rets[r].call))
                      ELSE Cardinality(AbortsFor(rets[r].call, e.id)) IN
    /\ e.kind = "transient" => attempts = MaxAttempts
    /\ e.kind = "denied" => attempts = 1

C9_SessionOfSelectedProfile ==
  (retTo = "m_ret" /\ pc \in {"list", "loop", "m_ret"})
    => sess.creds = profile /\ Effective(sess.profile) = profile

\* C10: in discover mode no upload is ever listed or aborted and no bucket
\* is processed.
C10_DiscoverReadOnly ==
  discoverFlag => aborts = <<>> /\ lists = <<>> /\ calls = 0

\* C10 happens: discover has reported on every bucket of ALL_BUCKETS, some
\* of which hold uploads.
C10_Witness ==
  /\ discoverFlag /\ pc = "exit" /\ bucket = ALL_BUCKETS
  /\ buckets # <<>> /\ bi > Len(buckets)
  /\ \E i \in DOMAIN printed : printed[i].bucket = buckets[1]
  /\ \A b \in Range(buckets) : uploads[b] # <<>>

====
